---- MODULE Spec2Model ----
(***************************************************************************)
(* Model of the range-capable HTTP reader of dbyington/httpio as vendored  *)
(* in manifestgo (vendor/github.com/dbyington/httpio/io.go, second copy,   *)
(* lines 279-673): ReadAtCloser.HashURL with its per-chunk goroutines,     *)
(* ReadAtCloser.ReadAt, ReadAtCloser.Close, and the whole-body hashURL.    *)
(*                                                                         *)
(* Bytes are modelled as naturals: the object's byte at offset k is k+1,   *)
(* a freshly made buffer holds 0.  A digest is modelled as the pair of the *)
(* algorithm and the bytes written to it (a collision-free hash).          *)
(***************************************************************************)
EXTENDS Integers, Sequences, FiniteSets, TLC

\* ------------------------------------------------------------------ bounds
MaxLen == 3
MaxCloses == 2
MaxCalls == 2
MaxExpect == 2

\* --------------------------------------------------------------- constants
StatusPartialContent == 206
Sha256Size == 32
Md5Size == 16
\* The admission-gate capacity of the specification's configuration.  The
\* vendored code has no such field and no gate.
maxConcurrentReaders == 2

Nil == "nil"
NilHash == [alg |-> "nil", data |-> << >>]
NoReturn == [hashes |-> << >>, err |-> "none"]
NoCtx == <<"none", 0>>
ErrRangeReadNotSatisfied == "range not satisfied"
ErrUnexpectedEOF == "unexpected EOF"
ErrTransport == "transport error"

Min(a, b) == IF a < b THEN a ELSE b

VARIABLES
    contentLength,  \* r.contentLength, captured by the HEAD probe
    hpc,            \* HashURL: "idle" | "waiting" (wg.Wait) | "returned" | "panicked"
    scheme,         \* HashURL argument
    chunkSizeArg,   \* HashURL argument chunkSize as passed
    chunks,         \* HashURL local chunks
    size,           \* HashURL local chunkSize after lines 471-483
    wpc,            \* per chunk goroutine: "none" | "ready" | "inflight" | "done"
    racCancel,      \* cancel field of the goroutine's private copy rac
    hashes,         \* HashURL local hashes, by index
    hashErrs,       \* HashURL local hashErrs, by index
    hret,           \* what HashURL returned: [hashes, err]
    rCancel,        \* r.cancel of the shared reader
    canceled,       \* contexts whose cancel func has been called
    closes,         \* number of Close() calls that have returned
    calls,          \* number of direct ReadAt calls started on r
    rd,             \* the caller's direct ReadAt call on r
    requests,       \* every ranged GET issued: [ctx, first, last]
    doneOrder,      \* history: chunk indexes in the order their reads completed
    closeRets,      \* the errors the Close() calls returned, in order
    ctor,           \* a NewReadAtCloser call: its options, the HEAD answer, its results
    wb,             \* a call on the whole-body path: Options.hashURL or ReadCloser.Read
    pkg,            \* the Package and the position of the call that fills it
    man             \* what BuildPackageManifest returned

vars == <<contentLength, hpc, scheme, chunkSizeArg, chunks, size, wpc, racCancel,
          hashes, hashErrs, hret, rCancel, canceled, closes, calls, rd, requests,
          doneOrder, closeRets, ctor, wb, pkg, man>>

pkgVars == <<pkg, man>>

\* The state of a constructed reader and of the calls made on it.
readerVars == <<contentLength, hpc, scheme, chunkSizeArg, chunks, size, wpc,
                racCancel, hashes, hashErrs, hret, rCancel, canceled, closes,
                calls, rd, requests, doneOrder, closeRets>>

hashVars == <<hpc, scheme, chunkSizeArg, chunks, size, wpc, racCancel,
              hashes, hashErrs, hret, doneOrder>>

\* ------------------------------------------------------------- the object
WorkerIdx == 0 .. (IF MaxLen > 1 THEN MaxLen - 1 ELSE 0)
ChunkSizes == (0 - 1) .. (MaxLen + 1)
Schemes == {Sha256Size, Md5Size}
Starts == 0 .. MaxLen
BufLens == 0 .. MaxLen

\* The remote object as the server holds it: byte k (0-based) is k+1.
Body == [k \in 1 .. contentLength |-> k]

Zeros(n) == [k \in 1 .. n |-> 0]

\* The bytes [from, to) of the object, 0-based, clipped to the object.
Bytes(from, to) == SubSeq(Body, from + 1, Min(to, contentLength))

\* ------------------------------------------------------------- the server
\* How one ranged GET can end.  "ok": 206 with the Content-Length of the
\* part; "nolen": 206 without a declared length (res.ContentLength = -1);
\* "status": any status but 206; "neterr": client.Do returns an error.
Outcomes == {"ok", "nolen", "status", "neterr"}

\* Range: bytes=first-last names the bytes first..last, both included; a
\* range that starts at or after the end of the object is not satisfiable.
Satisfiable(first) == first < contentLength

RangeBody(first, last) == Bytes(first, last + 1)

Response(outcome, first, last) ==
    CASE outcome = "neterr" ->
            [err |-> ErrTransport, status |-> 0, body |-> << >>, ContentLength |-> 0]
      [] outcome = "status" ->
            [err |-> Nil, status |-> 416, body |-> << >>, ContentLength |-> 0]
      [] outcome = "nolen" ->
            [err |-> Nil, status |-> StatusPartialContent,
             body |-> RangeBody(first, last), ContentLength |-> 0 - 1]
      [] OTHER ->
            [err |-> Nil, status |-> StatusPartialContent,
             body |-> RangeBody(first, last),
             ContentLength |-> Len(RangeBody(first, last))]

\* The outcomes the transport can produce for a request under context ctx.
Possible(ctx, first) ==
    IF ctx \in canceled THEN {"neterr"}
    ELSE IF Satisfiable(first) THEN Outcomes
    ELSE {"status", "neterr"}

\* ------------------------------------------------------------------ ReadAt
\* copy(b, bt) into a zeroed buffer of length n.
Copy(n, bt) == [k \in 1 .. n |-> IF k <= Len(bt) THEN bt[k] ELSE 0]

\* The Range header ReadAt sends: bytes=<start>-<end>, end = start+len(b).
RangeFirst(start, len) == start
RangeLast(start, len) == start + len

\* ReadAt from the response on: what it returns and leaves in b.
ReadAt(len, start, res) ==
    LET end == start + len
    IN  IF res.err # Nil
        THEN [n |-> 0, err |-> res.err, b |-> Zeros(len)]
        ELSE IF res.status # StatusPartialContent
        THEN [n |-> 0, err |-> ErrRangeReadNotSatisfied, b |-> Zeros(len)]
        ELSE IF contentLength < end
        THEN [n |-> res.ContentLength - start, err |-> ErrUnexpectedEOF,
              b |-> Copy(len, res.body)]
        ELSE [n |-> Min(len, res.ContentLength), err |-> Nil,
              b |-> Copy(len, res.body)]

\* ------------------------------------------------------------------ hashing
HasherFor(sch) == IF sch = Sha256Size THEN "sha256" ELSE "md5"

Digest(alg, data) == [alg |-> alg, data |-> data]

\* Options.hashURL: one GET of the whole body, hashed in one pass.
hashURL(sch) == Digest(HasherFor(sch), Body)

\* ------------------------------------------------------------------ HashURL
CeilDiv(a, b) == (a + b - 1) \div b

\* int64(math.Ceil(NaN)): the conversion of NaN is implementation-dependent;
\* amd64 yields the smallest int64, arm64 yields 0.  The smallest int64 is
\* written as the smallest number the checker's integers hold: make() looks
\* only at its sign.
NaNToInt64 == {0 - 2147483647, 0}

PlanSize(cs) ==
    LET s == IF cs <= 0 THEN contentLength ELSE cs
    IN  IF s > contentLength THEN contentLength ELSE s

\* The possible values of chunks.
PlanChunks(cs) ==
    LET s == IF cs <= 0 THEN contentLength ELSE cs
    IN  IF s > contentLength THEN {1}
        ELSE IF s = 0 THEN NaNToInt64
        ELSE {CeilDiv(contentLength, s)}

WorkerStart(i) == size * i

\* A goroutine that goes on to hash its buffer after a hard read failure.
WorkerHashNoAbort(ra) ==
    [h |-> Digest(HasherFor(scheme), ra.b), e |-> ra.err]

\* The body of the chunk goroutine after its ReadAt returned ra.
WorkerHash(ra) ==
    IF ra.err # Nil /\ ra.err # ErrUnexpectedEOF
    THEN [h |-> NilHash, e |-> ra.err]
    ELSE [h |-> Digest(HasherFor(scheme), ra.b), e |-> ra.err]

\* A pipeline that appends results as the reads complete.
StoreIndexByCompletion(idx) == Len(doneOrder)

\* Where the goroutine of chunk idx stores its result: hashes[idx].
StoreIndex(idx) == idx

\* The loop of checkErrSlice: the value of its named result err at the end.
RECURSIVE errLoop(_, _)
errLoop(es, err) ==
    IF es = << >> THEN err
    ELSE IF Head(es) = Nil THEN errLoop(Tail(es), err)
    ELSE IF err = Nil THEN errLoop(Tail(es), "<nil>: " \o Head(es))
    ELSE errLoop(Tail(es), Head(es))

\* checkErrSlice ends in "return nil", whatever the loop left in err.
checkErrSlice(es) ==
    LET err == errLoop(es, Nil)
    IN  IF err = Nil THEN Nil ELSE Nil

\* The state of the caller's ReadAt before any call.
NoCall == [pc |-> "idle", start |-> 0, len |-> 0, ctx |-> NoCtx,
           afterClose |-> FALSE, out |-> "none", n |-> 0, err |-> Nil,
           b |-> << >>]

\* A Package before ReadFromURL or ReadPkgFile fills it.
NoPkg == [pc |-> "idle", source |-> "none", hashType |-> 0, hashChunkSize |-> 0,
          Size |-> 0, URL |-> "", Hashes |-> << >>, ret |-> Nil]

\* BuildPackageManifest not called yet.
NoManifest == [pc |-> "none", err |-> Nil, URL |-> "", MD5Size |-> 0,
               MD5s |-> << >>, SHA256Size |-> 0, SHA256s |-> << >>]

\* No NewReadAtCloser call yet.
NilReader == [nil |-> TRUE, contentLength |-> 0, etag |-> << >>]

NoHead == [err |-> Nil, status |-> 0, acceptRanges |-> << >>, etag |-> << >>]
NoCtor == [pc |-> "idle", url |-> "", expect |-> << >>, head |-> NoHead, status |-> 0,
           reader |-> NilReader, err |-> Nil, errStatus |-> 0, errUrl |-> "",
           reqs |-> << >>]

\* No call on the whole-body path yet.
NoGet == [err |-> Nil, status |-> 0, declared |-> FALSE]
NoWhole == [op |-> "none", res |-> NoGet, sch |-> 0, plen |-> 0, reqs |-> << >>,
            h |-> NilHash, n |-> 0, p |-> << >>,
            err |-> Nil, errStatus |-> 0, errUrl |-> ""]

Init ==
    /\ contentLength \in 0 .. MaxLen
    /\ hpc = "idle"
    /\ scheme = Sha256Size
    /\ chunkSizeArg = 0
    /\ chunks = 0
    /\ size = 0
    /\ wpc = [i \in WorkerIdx |-> "none"]
    /\ racCancel = [i \in WorkerIdx |-> NoCtx]
    /\ hashes = [i \in WorkerIdx |-> NilHash]
    /\ hashErrs = [i \in WorkerIdx |-> Nil]
    /\ hret = NoReturn
    /\ rCancel = NoCtx
    /\ canceled = {}
    /\ closes = 0
    /\ calls = 0
    /\ rd = NoCall
    /\ requests = {}
    /\ doneOrder = << >>
    /\ closeRets = << >>
    /\ ctor = NoCtor
    /\ wb = NoWhole
    /\ pkg = NoPkg
    /\ man = NoManifest

\* HashURL up to wg.Wait(): the plan, the slices, one goroutine per chunk.
HashURLCall(sch, cs) ==
    /\ hpc = "idle"
    /\ scheme' = sch
    /\ chunkSizeArg' = cs
    /\ size' = PlanSize(cs)
    /\ \E c \in PlanChunks(cs) :
          /\ chunks' = c
          /\ IF c < 0
             THEN /\ hpc' = "panicked"
                  /\ UNCHANGED <<wpc, racCancel>>
             ELSE /\ hpc' = "waiting"
                  /\ wpc' = [i \in WorkerIdx |-> IF i < c THEN "ready" ELSE "none"]
                  /\ racCancel' = [i \in WorkerIdx |-> IF i < c THEN rCancel ELSE NoCtx]
    /\ UNCHANGED <<contentLength, hashes, hashErrs, hret, rCancel, canceled,
                   closes, calls, rd, requests, doneOrder>>
    /\ UNCHANGED <<closeRets, ctor, wb>>
    /\ UNCHANGED pkgVars

\* The goroutine of chunk i enters rac.ReadAt and sends its ranged GET.
WorkerSend(i) ==
    /\ wpc[i] = "ready"
    /\ wpc' = [wpc EXCEPT ![i] = "inflight"]
    /\ racCancel' = [racCancel EXCEPT ![i] = <<"w", i>>]
    /\ requests' = requests \cup
          {[ctx |-> <<"w", i>>, first |-> RangeFirst(WorkerStart(i), size),
            last |-> RangeLast(WorkerStart(i), size)]}
    /\ UNCHANGED <<contentLength, hpc, scheme, chunkSizeArg, chunks, size,
                   hashes, hashErrs, hret, rCancel, canceled, closes, calls, rd,
                   doneOrder>>
    /\ UNCHANGED <<closeRets, ctor, wb>>
    /\ UNCHANGED pkgVars

\* The response arrives; ReadAt returns; the goroutine hashes and stores.
WorkerRecv(i) ==
    /\ wpc[i] = "inflight"
    /\ \E o \in Possible(<<"w", i>>, WorkerStart(i)) :
          LET res == Response(o, RangeFirst(WorkerStart(i), size),
                              RangeLast(WorkerStart(i), size))
              w == WorkerHash(ReadAt(size, WorkerStart(i), res))
          IN  /\ hashes' = [hashes EXCEPT ![StoreIndex(i)] = w.h]
              /\ hashErrs' = [hashErrs EXCEPT ![StoreIndex(i)] = w.e]
    /\ wpc' = [wpc EXCEPT ![i] = "done"]
    /\ doneOrder' = Append(doneOrder, i)
    /\ UNCHANGED <<contentLength, hpc, scheme, chunkSizeArg, chunks, size,
                   racCancel, hret, rCancel, canceled, closes, calls, rd, requests>>
    /\ UNCHANGED <<closeRets, ctor, wb>>
    /\ UNCHANGED pkgVars

\* A HashURL that does not wait for its goroutines.
WaitReturnsEarly == TRUE

\* wg.Wait() returns when every goroutine has called wg.Done().
WaitReturns == \A i \in WorkerIdx : wpc[i] \in {"none", "done"}

\* wg.Wait() returns once every goroutine is done; checkErrSlice; return.
HashURLReturn ==
    /\ hpc = "waiting"
    /\ WaitReturns
    /\ hpc' = "returned"
    /\ hret' = [hashes |-> [k \in 1 .. chunks |-> hashes[k - 1]],
                err |-> checkErrSlice([k \in 1 .. chunks |-> hashErrs[k - 1]])]
    /\ UNCHANGED <<contentLength, scheme, chunkSizeArg, chunks, size, wpc,
                   racCancel, hashes, hashErrs, rCancel, canceled, closes, calls,
                   rd, requests, doneOrder>>
    /\ UNCHANGED <<closeRets, ctor, wb>>
    /\ UNCHANGED pkgVars

\* A Close that refuses to run twice.
CloseOnceResult == IF closes = 0 THEN Nil ELSE "already closed"

\* Close ends in "return nil".
CloseResult == Nil

\* Close: call r.cancel if set, CloseIdleConnections, return nil.
Close ==
    /\ closes < MaxCloses
    /\ canceled' = IF rCancel # NoCtx THEN canceled \cup {rCancel} ELSE canceled
    /\ closes' = closes + 1
    /\ closeRets' = Append(closeRets, CloseResult)
    /\ UNCHANGED <<contentLength, hashVars, rCancel, calls, rd, requests>>
    /\ UNCHANGED <<ctor, wb>>
    /\ UNCHANGED pkgVars

\* A caller enters r.ReadAt(b, start), len(b) = len: a fresh context whose
\* cancel func is stored in r.cancel, then the ranged GET is sent.
ReadAtSend(start, len) ==
    /\ rd.pc \in {"idle", "done"}
    /\ calls < MaxCalls
    /\ calls' = calls + 1
    /\ rCancel' = <<"c", calls + 1>>
    /\ rd' = [pc |-> "inflight", start |-> start, len |-> len,
              ctx |-> <<"c", calls + 1>>, afterClose |-> closes > 0,
              out |-> "none", n |-> 0, err |-> Nil, b |-> Zeros(len)]
    /\ requests' = requests \cup
          {[ctx |-> <<"c", calls + 1>>, first |-> RangeFirst(start, len),
            last |-> RangeLast(start, len)]}
    /\ UNCHANGED <<contentLength, hashVars, canceled, closes>>
    /\ UNCHANGED <<closeRets, ctor, wb>>
    /\ UNCHANGED pkgVars

\* The response arrives and r.ReadAt returns to the caller.
ReadAtRecv ==
    /\ rd.pc = "inflight"
    /\ \E o \in Possible(rd.ctx, rd.start) :
          LET res == Response(o, RangeFirst(rd.start, rd.len),
                              RangeLast(rd.start, rd.len))
              ra == ReadAt(rd.len, rd.start, res)
          IN  rd' = [rd EXCEPT !.pc = "done", !.out = o, !.n = ra.n,
                               !.err = ra.err, !.b = ra.b]
    /\ UNCHANGED <<contentLength, hashVars, rCancel, canceled, closes, calls,
                   requests>>
    /\ UNCHANGED <<closeRets, ctor, wb>>
    /\ UNCHANGED pkgVars

Next ==
    \/ \E sch \in Schemes, cs \in ChunkSizes : HashURLCall(sch, cs)
    \/ \E i \in WorkerIdx : WorkerSend(i)
    \/ \E i \in WorkerIdx : WorkerRecv(i)
    \/ HashURLReturn
    \/ Close

Spec == Init /\ [][Next]_vars

\* The scheduler runs every goroutine that can run: a goroutine that can
\* send does, a response that is due arrives, and HashURL leaves wg.Wait()
\* once it can.
SpecFair ==
    /\ Spec
    /\ \A i \in WorkerIdx : WF_vars(WorkerSend(i)) /\ WF_vars(WorkerRecv(i))
    /\ WF_vars(HashURLReturn)

\* A single caller reading through r.ReadAt, with Close interleaved.
NextReadAt ==
    \/ \E start \in Starts, len \in BufLens : ReadAtSend(start, len)
    \/ ReadAtRecv
    \/ Close

SpecReadAt == Init /\ [][NextReadAt]_vars

\* ReadFromURL: HashURL runs in a goroutine of its own while the archive
\* parser calls ReadAt on the same reader, first for the header at offset 0;
\* Close comes from the caller.  HashURL gets the package's one hash type and
\* a chunk size that splits the object.
SharedChunkSizes == {MaxLen - 1}
SharedStarts == {0, 1}
SharedBufLens == {1}

NextShared ==
    \/ \E cs \in SharedChunkSizes : HashURLCall(Sha256Size, cs)
    \/ \E i \in WorkerIdx : WorkerSend(i)
    \/ \E i \in WorkerIdx : WorkerRecv(i)
    \/ HashURLReturn
    \/ \E start \in SharedStarts, len \in SharedBufLens : ReadAtSend(start, len)
    \/ ReadAtRecv
    \/ Close

SpecShared == Init /\ [][NextShared]_vars

\* The accesses to the reader's field cancel.  The calls share no lock,
\* channel or atomic: nothing orders the step of one call with the step of
\* another.
\* A ReadAt call is running: it has stored its cancel func, r.cancel = cancel.
WroteCancel == rd.pc = "inflight"

\* HashURL is about to copy the reader, cancel included: rac := *r.
CopiesReader == ENABLED (\E cs \in SharedChunkSizes : HashURLCall(Sha256Size, cs))

\* Close is about to read r.cancel and call it.
ReadsCancel == ENABLED Close

\* ------------------------------------------------------- NewReadAtCloser
ErrInvalidURLHost == "invalid url host"
ErrInvalidURLScheme == "invalid url scheme"
ErrRangeReadNotSupported == "range reads not supported"
ErrHeaderEtag == "etag header differs"
ErrHeaderContentLength == "content length differs"
ErrURLParse == "url parse error"

\* The URLs passed to WithURL, each with what url.Parse makes of it: an
\* error, or the Scheme and the Hostname() of the parsed URL.
Urls ==
    { [text |-> "http://h/p", parseErr |-> FALSE, scheme |-> "http", host |-> "h"],
      [text |-> "h/p",        parseErr |-> FALSE, scheme |-> "",     host |-> ""],
      [text |-> "//h/p",      parseErr |-> FALSE, scheme |-> "",     host |-> "h"],
      [text |-> "http:///p",  parseErr |-> FALSE, scheme |-> "http", host |-> ""],
      [text |-> "1h:80/p",    parseErr |-> TRUE,  scheme |-> "",     host |-> ""] }

validateUrl(u) ==
    IF u.parseErr THEN ErrURLParse
    ELSE IF u.scheme = "" THEN ErrInvalidURLScheme
    ELSE IF u.host = "" THEN ErrInvalidURLHost
    ELSE Nil

\* Header values are sequences of characters.
Quote == "\""
TagE1 == <<"e", "1">>
TagE2 == <<"e", "2">>
Quoted(v) == <<Quote>> \o v \o <<Quote>>
Decimal(n) == <<ToString(n)>>

\* What the server can answer to the HEAD: a transport error, or a status
\* with or without Accept-Ranges: bytes and with its Etag bare or quoted.
\* Content-Length is the object's length, Last-Modified is fixed.
Heads ==
    {[err |-> ErrTransport, status |-> 0, acceptRanges |-> << >>, etag |-> << >>]}
        \cup [err : {Nil}, status : {200, 404},
              acceptRanges : {<<"b", "y", "t", "e", "s">>, << >>},
              etag : {TagE1, Quoted(TagE1)}]

\* head.Header.Get(k): the lookup is by the canonical form of k.
Canonical(k) == IF k = "etag" THEN "Etag" ELSE k

HeaderGet(head, k) ==
    CASE Canonical(k) = "Etag" -> head.etag
      [] Canonical(k) = "Content-Length" -> Decimal(contentLength)
      [] Canonical(k) = "Last-Modified" -> <<"m", "1">>
      [] Canonical(k) = "Accept-Ranges" -> head.acceptRanges
      [] OTHER -> << >>

\* The expected-header maps passed to WithExpectHeaders.
ExpectNames == {"Etag", "etag", "Content-Length", "Last-Modified"}

ExpectValues(k) ==
    CASE Canonical(k) = "Etag" -> {TagE1, Quoted(TagE1), TagE2}
      [] Canonical(k) = "Content-Length" -> {Decimal(contentLength), <<"9", "9">>}
      [] OTHER -> {<<"m", "1">>, <<"m", "2">>}

ExpectMaps ==
    UNION { {f \in [D -> UNION {ExpectValues(k) : k \in D}] :
                \A k \in D : f[k] \in ExpectValues(k)} :
            D \in {E \in SUBSET ExpectNames : Cardinality(E) <= MaxExpect} }

\* headerErrs[k]: a missing key yields the zero value, a nil error.
headerErrs(k) ==
    CASE k = "Etag" -> ErrHeaderEtag
      [] k = "Content-Length" -> ErrHeaderContentLength
      [] OTHER -> Nil

\* strings.Trim(s, cutset) for a one-character cutset.
RECURSIVE TrimLeft(_, _)
TrimLeft(v, c) ==
    IF v # << >> /\ Head(v) = c THEN TrimLeft(Tail(v), c) ELSE v

RECURSIVE TrimRight(_, _)
TrimRight(v, c) ==
    IF v # << >> /\ v[Len(v)] = c THEN TrimRight(SubSeq(v, 1, Len(v) - 1), c)
    ELSE v

Trim(v, c) == TrimRight(TrimLeft(v, c), c)

\* The Etag headURL returns: the header with its quotes stripped.
headEtag(head) == Trim(head.etag, Quote)

\* A headURL without the Accept-Ranges test.
RangeUnsupportedNever(head) == FALSE

\* The Accept-Ranges test of headURL.
RangeUnsupported(head) == HeaderGet(head, "Accept-Ranges") # <<"b", "y", "t", "e", "s">>

\* Options.headURL: its possible results.  The loop over expectHeaders runs
\* in the map's iteration order, which Go leaves unspecified: the mismatch
\* it returns on is any of the mismatching names.
headURL(expect, head) ==
    IF head.err # Nil
    THEN {[contentLength |-> 0, etag |-> << >>, err |-> head.err]}
    ELSE IF RangeUnsupported(head)
    THEN {[contentLength |-> 0, etag |-> << >>, err |-> ErrRangeReadNotSupported]}
    ELSE LET differ == {k \in DOMAIN expect : HeaderGet(head, k) # expect[k]}
         IN  IF differ # {}
             THEN {[contentLength |-> 0, etag |-> << >>, err |-> headerErrs(k)] :
                       k \in differ}
             ELSE {[contentLength |-> contentLength, etag |-> headEtag(head),
                    err |-> Nil]}

\* The reader NewReadAtCloser returns when headURL failed: nil.
ReaderOnError(h) == NilReader

\* A constructor that probes before it validates the URL.
RequestsBeforeValidationEager(u) == <<"HEAD">>

\* The requests NewReadAtCloser has issued when validateUrl fails: none.
RequestsBeforeValidation(u) == << >>

\* NewReadAtCloser: validateUrl, then headURL, then the reader.
NewReadAtCloser(u, expect, head) ==
    IF validateUrl(u) # Nil
    THEN {[reader |-> NilReader, err |-> validateUrl(u), status |-> 0,
           reqs |-> RequestsBeforeValidation(u)]}
    ELSE {[reader |-> IF h.err # Nil THEN ReaderOnError(h)
                      ELSE [nil |-> FALSE, contentLength |-> h.contentLength,
                            etag |-> h.etag],
           err |-> h.err, status |-> head.status, reqs |-> <<"HEAD">>] :
             h \in headURL(expect, head)}

\* One call of NewReadAtCloser(WithURL(u), WithExpectHeaders(expect)), the
\* server answering the HEAD with head.
NewReadAtCloserCall ==
    /\ ctor.pc = "idle"
    /\ \E u \in Urls, expect \in ExpectMaps, head \in Heads :
          \E res \in NewReadAtCloser(u, expect, head) :
              ctor' = [pc |-> "done", url |-> u.text, expect |-> expect,
                       head |-> IF res.reqs = << >> THEN NoHead ELSE head,
                       status |-> res.status, reader |-> res.reader,
                       err |-> res.err, errStatus |-> 0, errUrl |-> "",
                       reqs |-> res.reqs]
    /\ UNCHANGED <<readerVars, wb>>
    /\ UNCHANGED pkgVars

NextNew == NewReadAtCloserCall

SpecNew == Init /\ [][NextNew]_vars

\* What url.Parse made of the URL the constructor was called with.
ParsedUrl == CHOOSE u \in Urls : u.text = ctor.url

\* ReadAtCloser.Etag: the field as the constructor set it.
Etag(reader) == reader.etag

\* A second NewReadAtCloser for the same URL, with the Etag() of the reader
\* the first one returned as the expected Etag; the server answers the HEAD
\* as it did before.
NewReadAtCloserPinned ==
    /\ ctor.pc = "done"
    /\ ~ctor.reader.nil
    /\ LET expect == [k \in {"Etag"} |-> Etag(ctor.reader)]
       IN  \E res \in NewReadAtCloser(ParsedUrl, expect, ctor.head) :
              ctor' = [pc |-> "pinned", url |-> ctor.url, expect |-> expect,
                       head |-> ctor.head,
                       status |-> res.status, reader |-> res.reader,
                       err |-> res.err, errStatus |-> 0, errUrl |-> "",
                       reqs |-> res.reqs]
    /\ UNCHANGED <<readerVars, wb>>
    /\ UNCHANGED pkgVars

NextPin ==
    \/ NewReadAtCloserCall
    \/ NewReadAtCloserPinned

SpecPin == Init /\ [][NextPin]_vars

\* ------------------------------------------------------------- ReadCloser
ErrReadFailed == "read failed"

\* A RequestError{StatusCode, Url}: its fields travel with it.
ErrRequest == "request error"

StatusOK == 200

\* The URL the ReadCloser was built for.
WholeUrl == "http://h/p"

\* The statuses the server can answer the whole-body GET with; the client
\* follows 301, 302, 303, 307 and 308 itself.
WholeStatuses == {200, 203, 204, 300, 404, 500}

\* How the GET can end: client.Get/client.Do returns an error, or a response
\* with a status, its Content-Length declared or not.
Gets ==
    {[err |-> ErrTransport, status |-> 0, declared |-> FALSE]}
        \cup [err : {Nil}, status : WholeStatuses, declared : BOOLEAN]

\* res.Body: the object with 200 and 203, nothing otherwise.
GetBody(res) == IF res.status \in {200, 203} THEN Body ELSE << >>

\* res.ContentLength: -1 when the response declares none.
GetContentLength(res) == IF res.declared THEN Len(GetBody(res)) ELSE 0 - 1

\* Options.hashURL from the response on.
hashURLOf(res, sch) ==
    IF res.err # Nil
    THEN [h |-> NilHash, err |-> res.err, errStatus |-> 0, errUrl |-> ""]
    ELSE IF res.status < 200 \/ res.status > 399
    THEN [h |-> NilHash, err |-> ErrRequest, errStatus |-> res.status,
          errUrl |-> WholeUrl]
    ELSE [h |-> Digest(HasherFor(sch), GetBody(res)), err |-> Nil,
          errStatus |-> 0, errUrl |-> ""]

\* ReadCloser.Read from the response on, into p of length plen.
ReadCloserRead(res, plen) ==
    IF res.err # Nil
    THEN [n |-> 0, err |-> res.err, p |-> Zeros(plen)]
    ELSE IF res.status # StatusOK
    THEN [n |-> 0, err |-> ErrReadFailed, p |-> Zeros(plen)]
    ELSE [n |-> Min(plen, GetContentLength(res)), err |-> Nil,
          p |-> Copy(plen, GetBody(res))]

\* ReadCloser.HashURL(size): Options.hashURL.
ReadCloserHashURL(res, sch) ==
    /\ wb.op = "none"
    /\ LET r == hashURLOf(res, sch)
       IN  wb' = [NoWhole EXCEPT !.op = "hash", !.res = res, !.sch = sch,
                                 !.reqs = <<"GET">>, !.h = r.h, !.err = r.err,
                                 !.errStatus = r.errStatus, !.errUrl = r.errUrl]
    /\ UNCHANGED <<readerVars, ctor>>
    /\ UNCHANGED pkgVars

\* ReadCloser.Read(p), len(p) = plen.
ReadCloserReadCall(res, plen) ==
    /\ wb.op = "none"
    /\ LET r == ReadCloserRead(res, plen)
       IN  wb' = [NoWhole EXCEPT !.op = "read", !.res = res, !.plen = plen,
                                 !.reqs = <<"GET">>, !.n = r.n, !.p = r.p,
                                 !.err = r.err]
    /\ UNCHANGED <<readerVars, ctor>>
    /\ UNCHANGED pkgVars

NextWhole ==
    \/ \E res \in Gets, sch \in Schemes : ReadCloserHashURL(res, sch)
    \/ \E res \in Gets, plen \in BufLens : ReadCloserReadCall(res, plen)

SpecWhole == Init /\ [][NextWhole]_vars

\* The constructor's probe and the whole-body path side by side.
NextTransport ==
    \/ NextNew
    \/ NextWhole

SpecTransport == Init /\ [][NextTransport]_vars

\* The HEAD was answered, with Accept-Ranges: bytes.
Probed ==
    /\ ctor.pc = "done"
    /\ ctor.reqs = <<"HEAD">>
    /\ ctor.head.err = Nil

\* The expected header names whose value differs from the HEAD response's.
Differing == {k \in DOMAIN ctor.expect : HeaderGet(ctor.head, k) # ctor.expect[k]}

\* ------------------------------------------------------------ ReadFromURL
ErrXar == "xar: not a valid archive"
ErrFill == "fill failed"

\* The Size ReadFromURL stores: Length(), or hashChunkSize when that is less.
PackageSize(cs) == IF cs < contentLength THEN cs ELSE contentLength

\* NewPackage(reader, ht, cs) and ReadFromURL up to xar.NewReader: the
\* goroutine that will run HashURL is started, Size and URL are set.
ReadFromURLStart(ht, cs) ==
    /\ pkg.pc = "idle"
    /\ pkg' = [NoPkg EXCEPT !.pc = "parsing", !.source = "url", !.hashType = ht,
                            !.hashChunkSize = cs, !.Size = PackageSize(cs),
                            !.URL = WholeUrl]
    /\ UNCHANGED <<readerVars, ctor, wb, man>>

\* The goroutine calls HashURL with the package's hash type and chunk size.
ReadFromURLHash ==
    /\ pkg.source = "url"
    /\ HashURLCall(pkg.hashType, pkg.hashChunkSize)

\* The archive parser reads through the reader while it parses and fills.
ReadFromURLRead ==
    /\ pkg.pc \in {"parsing", "filling"}
    /\ \E start \in SharedStarts, len \in SharedBufLens : ReadAtSend(start, len)

\* xar.NewReader returns: on an error ReadFromURL returns it at once.  An
\* empty object holds no archive header.
ReadFromURLParsed(ok) ==
    /\ pkg.pc = "parsing"
    /\ rd.pc # "inflight"
    /\ ok => contentLength > 0
    /\ pkg' = IF ok THEN [pkg EXCEPT !.pc = "filling"]
              ELSE [pkg EXCEPT !.pc = "returned", !.ret = ErrXar]
    /\ UNCHANGED <<readerVars, ctor, wb, man>>

\* p.fill returns: on an error ReadFromURL returns it at once.
ReadFromURLFilled(ok) ==
    /\ pkg.pc = "filling"
    /\ rd.pc # "inflight"
    /\ pkg' = IF ok THEN [pkg EXCEPT !.pc = "waiting"]
              ELSE [pkg EXCEPT !.pc = "returned", !.ret = ErrFill]
    /\ UNCHANGED <<readerVars, ctor, wb, man>>

\* wg.Wait() returns when the goroutine is done; hashErr or the hashes.
ReadFromURLWait ==
    /\ pkg.pc = "waiting"
    /\ hpc = "returned"
    /\ pkg' = IF hret.err # Nil
              THEN [pkg EXCEPT !.pc = "returned", !.ret = hret.err]
              ELSE [pkg EXCEPT !.pc = "returned", !.ret = Nil,
                               !.Hashes = pkg.Hashes \o hret.hashes]
    /\ UNCHANGED <<readerVars, ctor, wb, man>>

NextReadFromURL ==
    \/ \E ht \in Schemes, cs \in ChunkSizes : ReadFromURLStart(ht, cs)
    \/ ReadFromURLHash
    \/ \E i \in WorkerIdx : WorkerSend(i)
    \/ \E i \in WorkerIdx : WorkerRecv(i)
    \/ HashURLReturn
    \/ ReadFromURLRead
    \/ ReadAtRecv
    \/ \E ok \in BOOLEAN : ReadFromURLParsed(ok)
    \/ \E ok \in BOOLEAN : ReadFromURLFilled(ok)
    \/ ReadFromURLWait

SpecReadFromURL == Init /\ [][NextReadFromURL]_vars

\* ---------------------------------------------------------------- manifest
ErrNoHashes == "unable to create asset: no hashes available"
ErrHashNotReady == "hash not ready"

\* How ReadPkgFile can end: it returns the package, or the error of os.Open
\* or Stat, of the hashing, of xar.NewReader or of p.fill.
FileOutcomes == {"ok", "open", "hash", "xar", "fill"}

\* ReadPkgFile(name), the file holding the object: one sha256 digest of the
\* whole file and its size; hashType keeps its zero value.  An empty file
\* holds no archive.
ReadPkgFile(out) ==
    /\ pkg.pc = "idle"
    /\ out = "ok" => contentLength > 0
    /\ pkg' = IF out = "ok"
              THEN [NoPkg EXCEPT !.pc = "returned", !.source = "file",
                                 !.Hashes = <<Digest("sha256", Body)>>,
                                 !.Size = contentLength]
              ELSE [NoPkg EXCEPT !.pc = "returned", !.source = "file",
                                 !.ret = out]
    /\ UNCHANGED <<readerVars, ctor, wb, man>>

\* hex.EncodeToString(h.Sum(nil)).
Hex(h) == [hex |-> h]

\* The loop of BuildPackageManifest over p.Hashes, a the asset so far.
RECURSIVE assetLoop(_, _, _)
assetLoop(hs, p, a) ==
    IF hs = << >> THEN a
    ELSE IF Head(hs) = NilHash THEN [a EXCEPT !.err = ErrHashNotReady]
    ELSE IF p.hashType = Md5Size
    THEN assetLoop(Tail(hs), p,
                   [a EXCEPT !.MD5Size = p.Size,
                             !.MD5s = Append(a.MD5s, Hex(Head(hs)))])
    ELSE IF p.hashType = Sha256Size
    THEN assetLoop(Tail(hs), p,
                   [a EXCEPT !.SHA256Size = p.Size,
                             !.SHA256s = Append(a.SHA256s, Hex(Head(hs)))])
    ELSE assetLoop(Tail(hs), p, a)

\* BuildPackageManifest(p): the error, or the one asset of the manifest.
BuildPackageManifest(p) ==
    IF Len(p.Hashes) = 0
    THEN [NoManifest EXCEPT !.pc = "built", !.err = ErrNoHashes]
    ELSE LET a == assetLoop(p.Hashes, p,
                            [NoManifest EXCEPT !.pc = "built", !.URL = p.URL])
         IN  IF a.err # Nil
             THEN [NoManifest EXCEPT !.pc = "built", !.err = a.err]
             ELSE a

\* p.BuildManifest() on a package that ReadPkgFile or ReadFromURL returned.
BuildManifest ==
    /\ pkg.pc = "returned"
    /\ pkg.ret = Nil
    /\ man.pc = "none"
    /\ man' = BuildPackageManifest(pkg)
    /\ UNCHANGED <<readerVars, ctor, wb, pkg>>

NextManifest ==
    \/ NextReadFromURL
    \/ \E out \in FileOutcomes : ReadPkgFile(out)
    \/ BuildManifest

SpecManifest == Init /\ [][NextManifest]_vars

\* The digest strings of the manifest's asset.
AssetDigests == man.MD5s \o man.SHA256s

\* ------------------------------------------------------------ observations
\* The contexts of the ranged GETs that are in flight.
InFlight ==
    {<<"w", i>> : i \in {j \in WorkerIdx : wpc[j] = "inflight"}}
        \cup (IF rd.pc = "inflight" THEN {rd.ctx} ELSE {})

\* The chunks of the running or finished HashURL call.
Chunks == {i \in WorkerIdx : i < chunks}

\* len(b) of the buffer the goroutine of chunk i reads into.
ChunkSpan(i) == size

RECURSIVE SumSpans(_)
SumSpans(n) == IF n <= 0 THEN 0 ELSE ChunkSpan(n - 1) + SumSpans(n - 1)

\* The bytes a request names: first..last, both included.
Requested(q) == q.first .. q.last

ChunkRequests == {q \in requests : q.ctx[1] = "w"}

ChunkRequest(i) == CHOOSE q \in ChunkRequests : q.ctx = <<"w", i>>

AllChunksSent == hpc \in {"waiting", "returned"}
                 /\ \A i \in Chunks : wpc[i] \in {"inflight", "done"}

HardFailure(e) == e # Nil /\ e # ErrUnexpectedEOF

\* ------------------------------------------------------------------ claims

\* C1: with at most maxConcurrentReaders concurrent readers configured, the
\* number of network requests in flight at the same time never exceeds it.
C1_InFlightBounded == Cardinality(InFlight) <= maxConcurrentReaders

\* C2: when Close() returns, every ReadAt call that was outstanding on the
\* reader (the chunk reads of HashURL included) has had its context canceled
\* and has exited: no request of the reader is still in flight.
C2_CloseCancelsAndWaits ==
    [][closes' > closes => (InFlight \subseteq canceled' /\ InFlight' = {})]_vars

\* C3: a ReadAt invoked after Close has been initiated fails: it returns an
\* error and never succeeds.
C3_ReadAtAfterCloseFails ==
    (rd.pc = "done" /\ rd.afterClose) => rd.err # Nil

\* C4: if any chunk of a HashURL call reports a hard failure (an error other
\* than the truncation signal), the call returns a non-nil error.
C4_HardFailureFailsHashURL ==
    (hpc = "returned" /\ \E i \in Chunks : HardFailure(hashErrs[i]))
        => hret.err # Nil

\* C5: HashURL uses 1 chunk if S <= 0 or S >= C and ceil(C/S) chunks
\* otherwise; every chunk but the last reads a span of S bytes, the last one
\* a span of C - S*(chunks-1) bytes, and the spans sum to C.
C5_ChunkPlan ==
    hpc # "idle" =>
        LET C == contentLength
            S == chunkSizeArg
            one == S <= 0 \/ S >= C
            count == IF one THEN 1 ELSE CeilDiv(C, S)
            span == IF one THEN C ELSE S
        IN  /\ chunks = count
            /\ \A i \in Chunks :
                  ChunkSpan(i) = IF i < count - 1 THEN span
                                 ELSE C - span * (count - 1)
            /\ SumSpans(chunks) = C

\* C6: the byte ranges requested by the chunk reads of one HashURL call
\* cover exactly [0, contentLength): chunk i starts where chunk i-1 ends, no
\* byte is requested by two chunks, none at or beyond contentLength.
C6_RangesPartitionContent ==
    AllChunksSent =>
        /\ \A i \in Chunks :
              ChunkRequest(i).first =
                  IF i = 0 THEN 0 ELSE ChunkRequest(i - 1).last + 1
        /\ \A i, j \in Chunks :
              i # j => Requested(ChunkRequest(i)) \cap Requested(ChunkRequest(j)) = {}
        /\ UNION {Requested(ChunkRequest(i)) : i \in Chunks} = 0 .. (contentLength - 1)

\* C7: every chunk span is positive, except when the content length is zero:
\* then, for every chunk size, the plan is exactly one zero-length chunk and
\* HashURL returns normally with one digest.
C7_SpansPositive ==
    hpc # "idle" =>
        /\ contentLength > 0 => \A i \in Chunks : ChunkSpan(i) > 0
        /\ contentLength = 0 =>
              /\ hpc # "panicked"
              /\ chunks = 1
              /\ ChunkSpan(0) = 0
              /\ hpc = "returned" => Len(hret.hashes) = 1

\* C8: the slice HashURL returns has one entry per chunk, and entry i is the
\* digest of chunk i, the chunkSize-byte buffer read at offset i*chunkSize,
\* whatever the order in which the concurrent chunk reads completed: the
\* result is a function of the content, the scheme and the chunk size alone
\* (an entry is empty only where the read of that very chunk failed hard).
C8_IndexAligned ==
    hpc = "returned" =>
        /\ Len(hret.hashes) = chunks
        /\ \A i \in Chunks :
              hret.hashes[i + 1] =
                  IF HardFailure(hashErrs[i]) THEN NilHash
                  ELSE Digest(HasherFor(scheme),
                              Copy(size, Bytes(size * i, size * i + size)))

\* C8 witness: HashURL returned three digests although the read of the last
\* chunk completed first and the read of chunk 0 last.
C8_Witness ==
    /\ hpc = "returned"
    /\ chunks = 3
    /\ doneOrder = <<2, 1, 0>>
    /\ \A i \in Chunks : hret.hashes[i + 1] # NilHash

\* C9: HashURL with chunk size <= 0 yields exactly one digest, equal to the
\* digest of the entire object hashed in one pass by the whole-body path.
C9_WholeObjectDigest ==
    (hpc \in {"returned", "panicked"} /\ chunkSizeArg <= 0
        /\ \A i \in Chunks : hashErrs[i] = Nil)
        => /\ hpc = "returned"
           /\ Len(hret.hashes) = 1
           /\ hret.hashes[1] = hashURL(scheme)

\* C10: ReadAt(buf, offset) with offset+len(buf) <= Length(), answered with
\* 206, returns n = len(buf) and a nil error, and buf holds the object's
\* bytes [offset, offset+len(buf)).
C10_InRangeRead ==
    (rd.pc = "done" /\ rd.start + rd.len <= contentLength
        /\ rd.out \in {"ok", "nolen"})
        => /\ rd.n = rd.len
           /\ rd.err = Nil
           /\ rd.b = Bytes(rd.start, rd.start + rd.len)

\* C11: ReadAt(buf, offset) with offset < Length() < offset+len(buf),
\* answered with 206, returns n = Length() - offset, the length of the valid
\* prefix, together with io.ErrUnexpectedEOF.
C11_TruncatedRead ==
    (rd.pc = "done" /\ rd.out \in {"ok", "nolen"}
        /\ rd.start < contentLength /\ contentLength < rd.start + rd.len)
        => /\ rd.n = contentLength - rd.start
           /\ rd.err = ErrUnexpectedEOF

\* C12: when the read of a chunk of HashURL is truncated, the digest stored
\* for that chunk is the digest of exactly the bytes received from the
\* server, not of any longer buffer.
C12_TruncatedChunkDigest ==
    \A i \in Chunks :
        (wpc[i] = "done" /\ hashErrs[i] = ErrUnexpectedEOF)
            => hashes[i] = Digest(HasherFor(scheme),
                                  RangeBody(RangeFirst(WorkerStart(i), size),
                                            RangeLast(WorkerStart(i), size)))

\* C20: a hard read failure on a chunk aborts that chunk only: its slot in
\* hashes stays empty and its error is recorded at its index, the slot of a
\* chunk that has not completed is untouched, and the slot of every other
\* completed chunk holds the digest of that chunk's buffer.
C20_HardFailureAbortsChunkOnly ==
    \A i \in Chunks :
        /\ (wpc[i] = "done" /\ HardFailure(hashErrs[i]))
              => /\ hashes[i] = NilHash
                 /\ hashErrs[i] \in {ErrRangeReadNotSatisfied, ErrTransport}
        /\ (wpc[i] = "done" /\ ~HardFailure(hashErrs[i]))
              => hashes[i] = Digest(HasherFor(scheme),
                                    Copy(size, Bytes(size * i, size * i + size)))
        /\ wpc[i] # "done" => (hashes[i] = NilHash /\ hashErrs[i] = Nil)

\* C20 witness: chunk 0 failed hard and left its slot empty while chunk 1
\* completed and stored its digest.
C20_Witness ==
    /\ chunks >= 2
    /\ wpc[0] = "done" /\ HardFailure(hashErrs[0]) /\ hashes[0] = NilHash
    /\ wpc[1] = "done" /\ hashErrs[1] = Nil /\ hashes[1] # NilHash

\* C13: whenever the value of a listed header name differs from the HEAD
\* response's value for that name, construction fails with the non-nil error
\* of a differing header name and returns no reader.
C13_HeaderMismatchFails ==
    (Probed /\ ~RangeUnsupported(ctor.head) /\ Differing # {})
        => /\ ctor.err # Nil
           /\ \E k \in Differing : ctor.err = headerErrs(k)
           /\ ctor.reader.nil

\* C14: without Accept-Ranges: bytes in the HEAD response the constructor
\* returns the range-unsupported error and a nil reader and has issued the
\* HEAD only; every failed construction returns a nil reader, so a non-nil
\* reader comes with a nil error only.
C14_RangeUnsupportedFails ==
    ctor.pc = "done"
        => /\ (validateUrl(ParsedUrl) = Nil /\ ctor.head.err = Nil
                  /\ ctor.head.acceptRanges # <<"b", "y", "t", "e", "s">>)
                 => /\ ctor.err = ErrRangeReadNotSupported
                    /\ ctor.reader.nil
                    /\ ctor.reqs = <<"HEAD">>
           /\ ctor.err # Nil => ctor.reader.nil
           /\ ~ctor.reader.nil => ctor.err = Nil

C14_Witness ==
    /\ Probed
    /\ ctor.head.acceptRanges = << >>
    /\ ctor.err = ErrRangeReadNotSupported
    /\ ctor.reader.nil

C16_CloseIdempotent ==
    [][closes' = closes + 1
        => /\ closeRets' = Append(closeRets, Nil)
           /\ <<contentLength, rd, rCancel, calls, requests>>'
                 = <<contentLength, rd, rCancel, calls, requests>>
           /\ rd.pc # "inflight"
                 => (InFlight \cap canceled)' = InFlight \cap canceled
           /\ rCancel = NoCtx => canceled' = canceled
           /\ (closes > 0 /\ rCancel \in canceled) => canceled' = canceled]_vars

C16_Witness ==
    /\ closes = 2
    /\ closeRets = <<Nil, Nil>>
    /\ rd.pc = "done" /\ ~rd.afterClose
    /\ rCancel \in canceled

\* C18: the whole-body path issues one GET, and when the answer's status is
\* not 200 both Options.hashURL and ReadCloser.Read return an error, no
\* digest and no bytes.
C18_WholeBodyNeeds200 ==
    (wb.op # "none" /\ wb.res.err = Nil /\ wb.res.status # StatusOK)
        => /\ wb.reqs = <<"GET">>
           /\ wb.err # Nil
           /\ wb.h = NilHash
           /\ wb.n = 0
           /\ wb.p = Zeros(wb.plen)

\* C19: a non-2xx answer to the constructor's HEAD or to the whole-body GET
\* yields an error that carries the answer's status and the URL.
C19_TransportErrorCarriesStatus ==
    /\ (Probed /\ ctor.head.status \notin 200 .. 299)
          => /\ ctor.err = ErrRequest
             /\ ctor.errStatus = ctor.head.status
             /\ ctor.errUrl = ctor.url
    /\ (wb.op # "none" /\ wb.res.err = Nil /\ wb.res.status \notin 200 .. 299)
          => /\ wb.err = ErrRequest
             /\ wb.errStatus = wb.res.status
             /\ wb.errUrl = WholeUrl

\* C17: with ReadAt, HashURL and Close running concurrently on one reader,
\* while a ReadAt call is running, having written the reader's field cancel,
\* no other call is about to read that field.
C17_NoUnsynchronizedAccess ==
    WroteCancel => ~(CopiesReader \/ ReadsCancel)

\* C21: HashURL starts one goroutine for each chunk and no other, it has
\* returned only when each of them is done, whatever their errors, nothing
\* writes to the hash and error slices after it returned, and once every
\* goroutine is done HashURL returns.
C21_OneWorkerPerChunkAndWait ==
    /\ [][/\ hpc' \in {"waiting", "returned"}
                => \A i \in WorkerIdx : (wpc'[i] # "none") <=> (i < chunks')
          /\ hpc' = "returned" => \A i \in WorkerIdx : wpc'[i] \in {"none", "done"}
          /\ hpc = "returned" => (hashes' = hashes /\ hashErrs' = hashErrs)]_vars
    /\ (hpc = "waiting" /\ \A i \in WorkerIdx : wpc[i] \in {"none", "done"})
          ~> hpc = "returned"

C21_Witness ==
    /\ hpc = "returned"
    /\ chunks = 2
    /\ wpc[0] = "done" /\ wpc[1] = "done"
    /\ HardFailure(hashErrs[1])
    /\ doneOrder = <<1, 0>>

\* C22: a second construction that expects the Etag() of a reader built
\* against the same unchanged server, the reader holding the server's Etag,
\* succeeds, whether the server sends its Etag bare or in double quotes.
C22_EtagPinRoundTrip ==
    (ctor.pc = "pinned" /\ ctor.expect["Etag"] = headEtag(ctor.head))
        => (ctor.err = Nil /\ ~ctor.reader.nil)

\* C23: whatever the offset, the buffer and the server's answer, the count a
\* ReadAt call returns is at least 0 and at most len(buf).
C23_CountWithinBuffer ==
    rd.pc = "done" => (0 <= rd.n /\ rd.n <= rd.len)

\* C24: whenever ReadFromURL has returned, with or without an error, the
\* goroutine it started for HashURL has completed.
C24_ReturnsAfterHashing ==
    (pkg.source = "url" /\ pkg.pc = "returned")
        => /\ hpc = "returned"
           /\ \A i \in WorkerIdx : wpc[i] \in {"none", "done"}

\* C25: after a ReadFromURL that returned nil, Size is the chunk size HashURL
\* worked with: the lesser of Length() and hashChunkSize when hashChunkSize
\* is positive, Length() otherwise; not negative, and not zero unless the
\* object is empty.
C25_PackageSize ==
    (pkg.source = "url" /\ pkg.pc = "returned" /\ pkg.ret = Nil)
        => /\ pkg.Size = size
           /\ pkg.Size = IF pkg.hashChunkSize > 0
                         THEN Min(contentLength, pkg.hashChunkSize)
                         ELSE contentLength
           /\ pkg.Size >= 0
           /\ contentLength > 0 => pkg.Size # 0

\* C26: BuildPackageManifest returns an error for a package without hashes
\* or with a nil hash; for any other package that ReadPkgFile or ReadFromURL
\* returned it returns no error and the asset lists the hex digest of each
\* entry of Hashes, in the order of Hashes.
C26_ManifestListsEveryHash ==
    man.pc = "built"
        => IF pkg.Hashes = << >> \/ \E k \in DOMAIN pkg.Hashes : pkg.Hashes[k] = NilHash
           THEN man.err # Nil
           ELSE /\ man.err = Nil
                /\ AssetDigests = [k \in DOMAIN pkg.Hashes |-> Hex(pkg.Hashes[k])]

====
